---- MODULE Spec2Model ----
(***************************************************************************)
(* Forward-selection search `data_mining(data, dv)` of the notebook        *)
(* lesson-06-train-and-test.ipynb, as a state machine.                     *)
(*                                                                         *)
(* The data set is seen through two things the routine reads from it: its  *)
(* column names, and what statsmodels answers when asked to fit the        *)
(* dependent variable on a set of predictors (an adjusted R-squared, or a  *)
(* failure of the fit).  Scores are integers in units of 1/ScoreScale, so  *)
(* the Python literal 1 is ScoreScale and 0.0 is 0.                        *)
(***************************************************************************)
EXTENDS Integers, Sequences, FiniteSets

\* ------------------------------------------------------------------ bounds
\* Resolution of the scores: adjusted R-squared takes the values
\* -1/ScoreScale, 0, 1/ScoreScale, ..., ScoreScale/ScoreScale = 1.
ScoreScale == 4
\* Cap on the number of executions of the while-loop body that are followed.
MaxIters == 5

\* ------------------------------------------------------------------ inputs
\* The dependent variable passed at the call site.
dv == "crime_count"

\* Predictor columns of the training frame that the bounded inputs use,
\* in the order Python's str comparison puts them.
SortedNames == <<"income_log", "vacants", "youth">>

Names == {SortedNames[i] : i \in 1..Len(SortedNames)}

\* Column sets of the data frames handed to data_mining: the dependent
\* variable alone, with one, two or three candidates, and a frame that
\* lacks the dependent variable.
ColumnChoices ==
    { {dv},
      {dv, "income_log"},
      {dv, "income_log", "vacants"},
      {dv, "income_log", "vacants", "youth"},
      {"income_log"} }

\* Scores a fit can report: adjusted R-squared is at most 1, may be negative.
ScoreVals == (0 - 1)..ScoreScale

\* Scores that are not negative.
NonNegativeScoreVals == 0..ScoreScale

\* The predictor sets a frame with these columns can be fitted on.
PredictorSets(cols) == (SUBSET (cols \ {dv})) \ {{}}

VARIABLES
    data_columns,           \* data.columns
    rsquared_adj,           \* predictor set -> adjusted R-squared of its fit
    singular,               \* predictor sets whose fit raises
    pc,                     \* "start", "loop", "done", "error"
    error,                  \* exception that left data_mining, or "none"
    remaining,              \* set of candidate names
    selected,               \* list of chosen names
    current_score,
    best_new_score,
    best_candidate,
    scores_with_candidates, \* list of (score, candidate) tuples
    score,                  \* loop variable of the for loop, as last bound
    output,                 \* what print() has written, in order
    model,                  \* the value returned
    iters,                  \* executions of the while-loop body so far
    calls,                  \* calls of data_mining made on this data
    first_outcome,          \* outcome of the first call, once a second is made
    train_mask,             \* row labels of the training rows
    validate_mask,          \* row labels of the validation rows
    test_mask,              \* row labels of the test rows
    mask_pc,                \* statement of the splitting cell that runs next
    building,               \* the list that list(range(...)) is filling
    range_next              \* the value the range yields next

vars == <<data_columns, rsquared_adj, singular, pc, error, remaining, selected,
          current_score, best_new_score, best_candidate,
          scores_with_candidates, score, output, model, iters, calls,
          first_outcome, train_mask, validate_mask, test_mask, mask_pc,
          building, range_next>>

\* What the splitting cell leaves in the notebook.
masks == <<train_mask, validate_mask, test_mask, mask_pc, building, range_next>>

\* What data_mining reads and never writes: its frame and the notebook's
\* globals.
inputs == <<data_columns, rsquared_adj, singular, masks>>

\* The state of data_mining and of its frame.
mining == <<data_columns, rsquared_adj, singular, pc, error, remaining,
            selected, current_score, best_new_score, best_candidate,
            scores_with_candidates, score, output, model, iters, calls,
            first_outcome>>

\* ------------------------------------------------------- pure helpers
\* Python str `<` on column names.
NameRank(name) == CHOOSE i \in 1..Len(SortedNames) : SortedNames[i] = name

NameLess(a, b) == NameRank(a) < NameRank(b)

\* Variant of TupleLess that orders the tuples by candidate name alone.
TupleLessByName(t, u) == NameLess(t[2], u[2])

\* Variant of TupleLess that puts the smaller name last among equal scores.
TupleLessTiesReversed(t, u) ==
    t[1] < u[1] \/ (t[1] = u[1] /\ NameLess(u[2], t[2]))

\* Python tuple `<` on (score, candidate): first components first, the
\* second only when the first are equal.
TupleLess(t, u) == t[1] < u[1] \/ (t[1] = u[1] /\ NameLess(t[2], u[2]))

\* list.sort(): ascending by TupleLess (insertion into the sorted prefix;
\* the candidates of one list are distinct, so the order is total).
RECURSIVE Insert(_, _)
Insert(t, sorted) ==
    IF sorted = <<>> THEN <<t>>
    ELSE IF TupleLess(t, sorted[1]) THEN <<t>> \o sorted
    ELSE <<sorted[1]>> \o Insert(t, Tail(sorted))

RECURSIVE Sort(_)
Sort(list) ==
    IF list = <<>> THEN <<>> ELSE Insert(list[1], Sort(Tail(list)))

\* Variant of Pop that takes the first element, as list.pop(0) would.
PopFirst(list) == <<list[1], Tail(list)>>

\* list.pop(): the last element and the list without it.
Pop(list) == <<list[Len(list)], SubSeq(list, 1, Len(list) - 1)>>

\* ' + '.join(names): the names separated by "+" tokens.
RECURSIVE Join(_)
Join(names) ==
    IF names = <<>> THEN <<>>
    ELSE IF Len(names) = 1 THEN <<names[1]>>
    ELSE <<names[1], "+">> \o Join(Tail(names))

\* Variant of Format that leaves out the intercept term.
FormatNoIntercept(d, names) == <<d, "~">> \o Join(names)

\* "{} ~ {} + 1".format(dv, ' + '.join(names)), as a token list.
Format(d, names) == <<d, "~">> \o Join(names) \o <<"+", "1">>

\* What the formula parser makes of the right-hand side: the set of
\* predictor names (the term 1 is the intercept, "+" a separator).
Terms(formula) ==
    {formula[i] : i \in 3..Len(formula)} \ {"+", "1"}

\* smf.ols(formula, data).fit().rsquared_adj; the intercept-only model has
\* adjusted R-squared 0.
Fit(formula) ==
    IF Terms(formula) = {} THEN 0 ELSE rsquared_adj[Terms(formula)]

\* Variant of FitRaises in which no fit ever raises.
FitNeverRaises(formula) == FALSE

\* Whether smf.ols(formula, data).fit() raises.
FitRaises(formula) == Terms(formula) \in singular

\* Orders in which `for candidate in remaining` can visit a set.
Orders(S) ==
    {f \in [1..Cardinality(S) -> S] :
        \A i, j \in 1..Cardinality(S) : i # j => f[i] # f[j]}

\* Variant of LoopCondition that only looks at remaining.
LoopWhileRemaining == remaining # {}

\* while-loop condition.
LoopCondition == remaining # {} /\ current_score = best_new_score

\* Variant of Improves that also takes a candidate that only equals the
\* current score.
ImprovesOrEqual(cur, new) == cur <= new

\* `if current_score < best_new_score`.
Improves(cur, new) == cur < new

\* `if score == 1`.
Overfit(s) == s = ScoreScale

\* Variant of RemoveRaises for set.discard, which never raises.
DiscardNeverRaises(S, c) == FALSE

\* Whether set.remove(c) raises KeyError: c is not in the set.
RemoveRaises(S, c) == c \notin S

\* Variant of Remove that leaves the set as it is.
RemoveNothing(S, c) == S

\* remaining.remove(best_candidate).
Remove(S, c) == S \ {c}

\* Variant of AppendSelected that appends the candidate twice.
AppendTwice(list, c) == list \o <<c, c>>

\* Variant of AppendSelected that puts the candidate first.
PrependSelected(list, c) == <<c>> \o list

\* selected.append(best_candidate).
AppendSelected(list, c) == Append(list, c)

\* The formula of the candidate model of `for candidate in remaining`.
CandidateFormula(c) == Format(dv, selected \o <<c>>)

\* Position in `order` of the first candidate whose fit raises, 0 if none.
FirstFailure(order) ==
    IF \E i \in 1..Len(order) : FitRaises(CandidateFormula(order[i]))
    THEN CHOOSE i \in 1..Len(order) :
            /\ FitRaises(CandidateFormula(order[i]))
            /\ \A j \in 1..(i - 1) : ~FitRaises(CandidateFormula(order[j]))
    ELSE 0

\* scores_with_candidates after the for loop has visited order[1..n].
RECURSIVE Scored(_, _)
Scored(order, n) ==
    IF n = 0 THEN <<>>
    ELSE Append(Scored(order, n - 1), <<Fit(CandidateFormula(order[n])), order[n]>>)

NoModel == [formula |-> <<>>, rsquared_adj |-> 0]

\* ------------------------------------------------- the splitting cell
\* Number of rows the splitting cell assumes the sorted frame has.
NumRows == 180

\* Length of the repeating cycle of rows.
Stride == 4

\* list(range(start, stop, step)) for a positive step: the values
\* start, start + step, ... below stop.
Range(start, stop, step) ==
    IF start >= stop THEN <<>>
    ELSE [i \in 1..((stop - start + step - 1) \div step) |-> start + (i - 1) * step]

\* Variant of SortInts that leaves the list as it is.
NoSort(list) == list

\* list.sort() on a list of ints: ascending.  The element at index j goes
\* to the place after the smaller elements and the equal ones before it.
SortInts(list) ==
    LET place(j) ==
            Cardinality({k \in 1..Len(list) : list[k] < list[j]})
            + Cardinality({k \in 1..j : list[k] = list[j]})
    IN [i \in 1..Len(list) |->
            list[CHOOSE j \in 1..Len(list) : place(j) = i]]

\* The masks once the splitting cell has run.
TrainMask == SortInts(Range(0, NumRows, Stride) \o Range(1, NumRows, Stride))

ValidateMask == Range(2, NumRows, Stride)

TestMask == Range(3, NumRows, Stride)

\* The splitting cell has run: the state data_mining is called in.
MasksDone ==
    /\ mask_pc = "done"
    /\ train_mask = TrainMask
    /\ validate_mask = ValidateMask
    /\ test_mask = TestMask
    /\ building = <<>>
    /\ range_next = 0

\* ------------------------------------------------------------ initial
Locals ==
    /\ pc = "start"
    /\ error = "none"
    /\ remaining = {}
    /\ selected = <<>>
    /\ current_score = 0
    /\ best_new_score = 0
    /\ best_candidate = ""
    /\ scores_with_candidates = <<>>
    /\ score = 0
    /\ output = <<>>
    /\ model = NoModel
    /\ iters = 0

\* Whether adding one predictor never lowers the score by more than one
\* unit (the penalty adjusted R-squared puts on an extra predictor).
BoundedPenalty(f) ==
    \A S \in DOMAIN f : \A T \in DOMAIN f :
        (S \subseteq T /\ Cardinality(T) = Cardinality(S) + 1) => f[T] >= f[S] - 1

\* Frames with at most two candidates take every score and every set of
\* failing fits; frames with three candidates take the non-negative scores
\* of bounded penalty and no failing fit.
Init ==
    /\ data_columns \in ColumnChoices
    /\ IF Cardinality(data_columns \ {dv}) <= 2
       THEN /\ rsquared_adj \in [PredictorSets(data_columns) -> ScoreVals]
            /\ singular \in SUBSET PredictorSets(data_columns)
       ELSE /\ rsquared_adj \in
                    {f \in [PredictorSets(data_columns) -> NonNegativeScoreVals] :
                        BoundedPenalty(f)}
            /\ singular = {}
    /\ Locals
    /\ calls = 1
    /\ first_outcome = <<>>
    /\ MasksDone

\* ------------------------------------------------------------ actions
\* remaining.remove(dv) raises KeyError: dv is no column.
CallKeyError ==
    /\ pc = "start"
    /\ RemoveRaises(data_columns, dv)
    /\ pc' = "error"
    /\ error' = "KeyError"
    /\ remaining' = data_columns
    /\ UNCHANGED <<inputs, selected, current_score, best_new_score,
                   best_candidate, scores_with_candidates, score, output,
                   model, iters, calls, first_outcome>>

\* Lines up to the while loop.
Call ==
    /\ pc = "start"
    /\ ~RemoveRaises(data_columns, dv)
    /\ remaining' = data_columns \ {dv}
    /\ selected' = <<>>
    /\ current_score' = 0
    /\ best_new_score' = 0
    /\ pc' = "loop"
    /\ UNCHANGED <<inputs, error, best_candidate, scores_with_candidates,
                   score, output, model, iters, calls, first_outcome>>

\* One execution of the loop body in which a fit raises: the exception
\* leaves data_mining from inside the for loop.
IterateFitFailure ==
    /\ pc = "loop"
    /\ LoopCondition
    /\ iters < MaxIters
    /\ \E order \in Orders(remaining) :
        LET k == FirstFailure(order) IN
        /\ k > 0
        /\ scores_with_candidates' = Scored(order, k - 1)
        /\ score' = IF k > 1 THEN Fit(CandidateFormula(order[k - 1])) ELSE score
    /\ pc' = "error"
    /\ error' = "FitFailure"
    /\ iters' = iters + 1
    /\ UNCHANGED <<inputs, remaining, selected, current_score, best_new_score,
                   best_candidate, output, model, calls, first_outcome>>

\* One execution of the loop body in which the best candidate is not
\* better than current_score: nothing is selected.
IterateReject ==
    /\ pc = "loop"
    /\ LoopCondition
    /\ iters < MaxIters
    /\ \E order \in Orders(remaining) :
        LET popped == Pop(Sort(Scored(order, Len(order)))) IN
        /\ FirstFailure(order) = 0
        /\ ~Improves(current_score, popped[1][1])
        /\ score' = Fit(CandidateFormula(order[Len(order)]))
        /\ best_new_score' = popped[1][1]
        /\ best_candidate' = popped[1][2]
        /\ scores_with_candidates' = popped[2]
    /\ iters' = iters + 1
    /\ UNCHANGED <<inputs, pc, error, remaining, selected, current_score,
                   output, model, calls, first_outcome>>

\* One execution of the loop body in which the best candidate is selected
\* and the candidate visited last does not score 1.
IterateAccept ==
    /\ pc = "loop"
    /\ LoopCondition
    /\ iters < MaxIters
    /\ \E order \in Orders(remaining) :
        LET popped == Pop(Sort(Scored(order, Len(order)))) IN
        /\ FirstFailure(order) = 0
        /\ Improves(current_score, popped[1][1])
        /\ ~Overfit(Fit(CandidateFormula(order[Len(order)])))
        /\ score' = Fit(CandidateFormula(order[Len(order)]))
        /\ best_new_score' = popped[1][1]
        /\ best_candidate' = popped[1][2]
        /\ scores_with_candidates' = popped[2]
        /\ remaining' = Remove(remaining, popped[1][2])
        /\ selected' = AppendSelected(selected, popped[1][2])
        /\ current_score' = popped[1][1]
        /\ output' = Append(output, <<"score", popped[1][1]>>)
    /\ iters' = iters + 1
    /\ UNCHANGED <<inputs, pc, error, model, calls, first_outcome>>

\* One execution of the loop body in which the best candidate is selected
\* and the candidate visited last scores 1: 'model overfitted: ' + selected
\* adds a list to a str and raises TypeError.
IterateOverfit ==
    /\ pc = "loop"
    /\ LoopCondition
    /\ iters < MaxIters
    /\ \E order \in Orders(remaining) :
        LET popped == Pop(Sort(Scored(order, Len(order)))) IN
        /\ FirstFailure(order) = 0
        /\ Improves(current_score, popped[1][1])
        /\ Overfit(Fit(CandidateFormula(order[Len(order)])))
        /\ score' = Fit(CandidateFormula(order[Len(order)]))
        /\ best_new_score' = popped[1][1]
        /\ best_candidate' = popped[1][2]
        /\ scores_with_candidates' = popped[2]
        /\ remaining' = Remove(remaining, popped[1][2])
        /\ selected' = AppendSelected(selected, popped[1][2])
        /\ current_score' = popped[1][1]
        /\ output' = Append(output, <<"score", popped[1][1]>>)
    /\ pc' = "error"
    /\ error' = "TypeError"
    /\ iters' = iters + 1
    /\ UNCHANGED <<inputs, model, calls, first_outcome>>

\* The loop condition is false: print the formula, fit it, return.
Return ==
    /\ pc = "loop"
    /\ ~LoopCondition
    /\ output' = Append(output, <<"formula", Format(dv, selected)>>)
    /\ model' = [formula |-> Format(dv, selected),
                 rsquared_adj |-> Fit(Format(dv, selected))]
    /\ pc' = "done"
    /\ UNCHANGED <<inputs, error, remaining, selected, current_score,
                   best_new_score, best_candidate, scores_with_candidates,
                   score, iters, calls, first_outcome>>

Next ==
    \/ CallKeyError
    \/ Call
    \/ IterateFitFailure
    \/ IterateReject
    \/ IterateAccept
    \/ IterateOverfit
    \/ Return

Spec == Init /\ [][Next]_vars

\* A second call of data_mining on the same frame, once the first has
\* returned or raised: the locals start afresh.
Outcome == <<pc, error, selected, current_score, model>>

CallAgain ==
    /\ calls = 1
    /\ pc \in {"done", "error"}
    /\ first_outcome' = Outcome
    /\ calls' = 2
    /\ pc' = "start"
    /\ error' = "none"
    /\ remaining' = {}
    /\ selected' = <<>>
    /\ current_score' = 0
    /\ best_new_score' = 0
    /\ best_candidate' = ""
    /\ scores_with_candidates' = <<>>
    /\ score' = 0
    /\ output' = <<>>
    /\ model' = NoModel
    /\ iters' = 0
    /\ UNCHANGED inputs

NextTwice == Next \/ CallAgain

SpecTwice == Init /\ [][NextTwice]_vars

\* ------------------------------------------- the splitting cell, run
\* Before the splitting cell runs: no mask yet, data_mining not yet called
\* (its frame is cut from the training rows afterwards).
InitMasks ==
    /\ data_columns = {dv}
    /\ rsquared_adj \in [PredictorSets(data_columns) -> ScoreVals]
    /\ singular = {}
    /\ Locals
    /\ calls = 1
    /\ first_outcome = <<>>
    /\ train_mask = <<>>
    /\ validate_mask = <<>>
    /\ test_mask = <<>>
    /\ mask_pc = "train_even"
    /\ building = <<>>
    /\ range_next = 0

\* list(range(start, 180, 4)) takes the next value of the range.
RangeYield ==
    /\ mask_pc \in {"train_even", "train_odd", "validate", "test"}
    /\ range_next < NumRows
    /\ building' = Append(building, range_next)
    /\ range_next' = range_next + Stride
    /\ UNCHANGED <<mining, train_mask, validate_mask, test_mask, mask_pc>>

\* train_mask = list(range(0,180,4)), the range being exhausted.
AssignTrainEven ==
    /\ mask_pc = "train_even"
    /\ range_next >= NumRows
    /\ train_mask' = building
    /\ building' = <<>>
    /\ range_next' = 1
    /\ mask_pc' = "train_odd"
    /\ UNCHANGED <<mining, validate_mask, test_mask>>

\* train_mask = train_mask + list(range(1,180,4)).
ExtendTrainOdd ==
    /\ mask_pc = "train_odd"
    /\ range_next >= NumRows
    /\ train_mask' = train_mask \o building
    /\ building' = <<>>
    /\ mask_pc' = "sort"
    /\ UNCHANGED <<mining, validate_mask, test_mask, range_next>>

\* train_mask.sort().
SortTrain ==
    /\ mask_pc = "sort"
    /\ train_mask' = SortInts(train_mask)
    /\ range_next' = 2
    /\ mask_pc' = "validate"
    /\ UNCHANGED <<mining, validate_mask, test_mask, building>>

\* validate_mask = list(range(2,180,4)).
AssignValidate ==
    /\ mask_pc = "validate"
    /\ range_next >= NumRows
    /\ validate_mask' = building
    /\ building' = <<>>
    /\ range_next' = 3
    /\ mask_pc' = "test"
    /\ UNCHANGED <<mining, train_mask, test_mask>>

\* test_mask = list(range(3,180,4)).
AssignTest ==
    /\ mask_pc = "test"
    /\ range_next >= NumRows
    /\ test_mask' = building
    /\ building' = <<>>
    /\ range_next' = 0
    /\ mask_pc' = "done"
    /\ UNCHANGED <<mining, train_mask, validate_mask>>

NextMasks ==
    \/ RangeYield
    \/ AssignTrainEven
    \/ ExtendTrainOdd
    \/ SortTrain
    \/ AssignValidate
    \/ AssignTest

SpecMasks == InitMasks /\ [][NextMasks]_vars

\* ------------------------------------------------------------- claims
\* The candidate columns of the frame.
Candidates == data_columns \ {dv}

\* The scores print(current_score) has written, in order.
PrintedScores ==
    LET lines == SelectSeq(output, LAMBDA e : e[1] = "score")
    IN [i \in 1..Len(lines) |-> lines[i][2]]

\* The values held by a list.
Elems(list) == {list[i] : i \in 1..Len(list)}

\* `list` without its i-th element.
Without(list, i) == SubSeq(list, 1, i - 1) \o SubSeq(list, i + 1, Len(list))

\* C1: the while loop of data_mining runs its body at most |candidates|+1
\* times, also when the best candidate's score equals current_score.
C1_LoopWithinCandidatesPlusOne == iters <= Cardinality(Candidates) + 1

\* C2: an iteration in which the best candidate does not strictly improve
\* on current_score is the last one: once more iterations have run than
\* candidates were accepted, the loop body does not run again.
C2_NoImprovementIsLastIteration ==
    [][(pc = "loop" /\ iters > Len(selected)) => iters' = iters]_vars

\* C3: on valid input (dependent variable present, every fit succeeds) no
\* exception leaves data_mining; the check `score == 1` changes nothing.
C3_NoErrorOnValidInput ==
    (dv \in data_columns /\ singular = {}) => error = "none"

\* C4: a second call on the same input ends as the first did: same
\* selected list, same final score, same result or exception, whatever
\* order the set `remaining` is visited in.
C4_SecondCallSameOutcome ==
    (calls = 2 /\ pc \in {"done", "error"}) => Outcome = first_outcome

\* C5: the candidate appended at an accepted step has the highest adjusted
\* R-squared of selected+[candidate] among the candidates then remaining,
\* and when a call returns on a frame where some single-variable model
\* scores above 0, selected[1] is a variable with the highest
\* single-variable score.
C5_AcceptedIsBest ==
    [][/\ (selected' # selected /\ selected' # <<>>) =>
            LET c == selected'[Len(selected')] IN
            /\ c \in remaining
            /\ selected' = Append(selected, c)
            /\ \A d \in remaining :
                    Fit(CandidateFormula(d)) <= Fit(CandidateFormula(c))
       /\ (pc' = "done" /\ \E d \in Candidates : rsquared_adj[{d}] > 0) =>
            /\ selected' # <<>>
            /\ \A d \in Candidates :
                    rsquared_adj[{d}] <= rsquared_adj[{selected'[1]}]
      ]_vars

C5_Witness ==
    /\ pc = "done"
    /\ Len(selected) = 2
    /\ remaining # {}
    /\ \E d \in Candidates : rsquared_adj[{d}] < rsquared_adj[{selected[1]}]
    /\ \E d \in Candidates : d # selected[1] /\ rsquared_adj[{d}] > 0

\* C6: when data_mining returns, remaining is empty or no candidate left
\* in it scores above the final current_score when added to selected.
C6_NoRemainingImproves ==
    pc = "done" =>
        \/ remaining = {}
        \/ \A c \in remaining : Fit(CandidateFormula(c)) <= current_score

C6_Witness ==
    /\ pc = "done"
    /\ selected # <<>>
    /\ Cardinality(remaining) = 2
    /\ \E c \in remaining : Fit(CandidateFormula(c)) = current_score - 1

\* C7: the scores taken by current_score at accepted steps are strictly
\* increasing and all above the initial 0; current_score is the last of
\* them.
C7_ScoresStrictlyIncrease ==
    /\ \A i \in 1..Len(PrintedScores) : PrintedScores[i] > 0
    /\ \A i \in 1..Len(PrintedScores) : \A j \in 1..Len(PrintedScores) :
            i < j => PrintedScores[i] < PrintedScores[j]
    /\ Len(PrintedScores) = Len(selected)
    /\ current_score =
            IF PrintedScores = <<>> THEN 0 ELSE PrintedScores[Len(PrintedScores)]

C7_Witness == pc = "done" /\ Len(PrintedScores) = 3

\* C8: selected never holds a name twice and is never longer than the
\* number of candidate columns.
C8_SelectedDistinctAndBounded ==
    /\ \A i \in 1..Len(selected) : \A j \in 1..Len(selected) :
            i # j => selected[i] # selected[j]
    /\ (dv \in data_columns) => Len(selected) <= Cardinality(Candidates)

C8_Witness == Len(selected) = 3 /\ remaining = {}

\* C9 as stated: in the returned model, removing any one selected
\* predictor gives a strictly lower adjusted R-squared.
C9_EverySelectedIsNeeded ==
    pc = "done" =>
        \A i \in 1..Len(selected) :
            Fit(Format(dv, Without(selected, i))) < model.rsquared_adj

\* C9 amended: in the returned model, removing the predictor selected
\* last, or the one selected just before it, gives a strictly lower
\* adjusted R-squared; only a predictor selected before these two can be
\* removed without loss.
C9_LastTwoSelectedAreNeeded ==
    pc = "done" =>
        \A i \in 1..Len(selected) :
            i >= Len(selected) - 1 =>
                Fit(Format(dv, Without(selected, i))) < model.rsquared_adj

C9_Witness ==
    /\ pc = "done"
    /\ Len(selected) = 3
    /\ Fit(Format(dv, Without(selected, 1))) >= model.rsquared_adj
    /\ Fit(Format(dv, Without(selected, 2))) < model.rsquared_adj

\* C10 as stated: a fit that fails is absorbed, so no fit failure ever
\* leaves data_mining.
C10_FitFailureAbsorbed == error # "FitFailure"

\* C10 amended: an iteration that meets a candidate whose fit fails ends
\* the call with that failure: nothing is selected or printed in it and no
\* model is returned.
C10_FitFailureAborts ==
    [][(/\ pc = "loop"
        /\ iters' = iters + 1
        /\ \E c \in remaining : Terms(CandidateFormula(c)) \in singular) =>
            /\ pc' = "error"
            /\ error' = "FitFailure"
            /\ selected' = selected
            /\ remaining' = remaining
            /\ current_score' = current_score
            /\ output' = output
            /\ model' = NoModel
      ]_vars

C10_Witness ==
    /\ error = "FitFailure"
    /\ selected # <<>>
    /\ scores_with_candidates = <<>>
    /\ Cardinality(remaining) = 1

\* The formula of the model with an intercept and no predictor.
InterceptOnly == <<dv, "~", "+", "1">>

\* C11: on a frame whose only column is the dependent variable the loop
\* body never runs: no score is printed, selected stays empty,
\* current_score stays 0, and the model returned is the intercept-only one.
C11_NoCandidatesInterceptOnly ==
    data_columns = {dv} =>
        /\ iters = 0
        /\ selected = <<>>
        /\ current_score = 0
        /\ PrintedScores = <<>>
        /\ error = "none"
        /\ pc = "done" =>
                model = [formula |-> InterceptOnly, rsquared_adj |-> 0]

C11_Witness == data_columns = {dv} /\ pc = "done" /\ Len(output) = 1

\* Every candidate has a single-variable model, and it scores below 0.
AllSinglesNegative ==
    /\ Candidates # {}
    /\ dv \in data_columns
    /\ \A c \in Candidates : {c} \notin singular /\ rsquared_adj[{c}] < 0

\* C12: when every single-variable model scores below the initial 0, the
\* loop body runs exactly once, accepts nothing and the loop is left:
\* selected stays empty, no score is printed, and the model returned is
\* the intercept-only one.
C12_AllNegativeOneIteration ==
    AllSinglesNegative =>
        /\ iters <= 1
        /\ selected = <<>>
        /\ PrintedScores = <<>>
        /\ error = "none"
        /\ (pc = "loop" /\ iters = 1) => ~(remaining # {} /\ current_score = best_new_score)
        /\ pc = "done" =>
                /\ iters = 1
                /\ model = [formula |-> InterceptOnly, rsquared_adj |-> 0]

C12_Witness ==
    AllSinglesNegative /\ pc = "done" /\ Cardinality(remaining) = 2

\* The column names among the tokens of a formula's right-hand side.
Predictors(formula) ==
    SelectSeq(SubSeq(formula, 3, Len(formula)), LAMBDA tok : tok \in Names)

\* C13: a call that returns has printed one score per accepted step, in
\* the order of acceptance and equal to current_score at that step, then
\* one formula naming the selected predictors in selection order and the
\* intercept; no formula is printed before the call returns.
C13_ScoresThenFormula ==
    /\ pc = "done" =>
        /\ Len(output) = Len(selected) + 1
        /\ \A i \in 1..Len(selected) :
                output[i] = <<"score", rsquared_adj[{selected[j] : j \in 1..i}]>>
        /\ output[Len(output)][1] = "formula"
        /\ output[Len(output)][2] = model.formula
        /\ Predictors(model.formula) = selected
        /\ model.formula[1] = dv
        /\ model.formula[Len(model.formula)] = "1"
    /\ pc # "done" =>
        /\ model = NoModel
        /\ \A i \in 1..Len(output) : output[i][1] = "score"

C13_Witness ==
    /\ pc = "done"
    /\ Len(output) = 4
    /\ output[1][2] < output[2][2]
    /\ selected = <<"youth", "income_log", "vacants">>

\* C14: when the dependent variable is no column of the frame the call
\* fails at once with KeyError: no candidate is evaluated, nothing is
\* printed and no model is returned.
C14_MissingDvFailsAtOnce ==
    dv \notin data_columns =>
        /\ pc \in {"start", "error"}
        /\ pc = "error" => error = "KeyError"
        /\ iters = 0
        /\ selected = <<>>
        /\ scores_with_candidates = <<>>
        /\ output = <<>>
        /\ model = NoModel

C14_Witness == dv \notin data_columns /\ pc = "error" /\ error = "KeyError"

\* What C16 says of one step taken while the call is in its loop.
MovesAtMostOne ==
    /\ remaining' \subseteq remaining
    /\ \/ selected' = selected /\ remaining' = remaining
       \/ \E c \in remaining :
            /\ remaining' = remaining \ {c}
            /\ selected' = Append(selected, c)
    /\ (PrintedScores' # PrintedScores) <=> (selected' # selected)
    /\ (PrintedScores' # PrintedScores) <=> (remaining' # remaining)

\* C16: an iteration moves at most one candidate from remaining to
\* selected, and exactly one when it accepts; remaining never regains a
\* name; remaining and selected stay disjoint and together make up the
\* initial candidate set.
C16_RemainingAndSelectedPartition ==
    [][pc = "loop" =>
        /\ MovesAtMostOne
        /\ remaining' \cap {selected'[i] : i \in 1..Len(selected')} = {}
        /\ remaining' \cup {selected'[i] : i \in 1..Len(selected')} = Candidates
      ]_vars

C16_Witness ==
    /\ pc = "done"
    /\ Len(selected) = 2
    /\ Cardinality(remaining) = 1
    /\ iters = 3

\* C17 as stated: two candidates that, at some point of the search, each
\* score at or below current_score on their own and above it jointly are
\* never selected.  The points of the search a call went through are the
\* prefixes of selected, each with the score of its model as current_score.
C17_JointOnlyPairNeverSelected ==
    \A j \in 0..Len(selected) :
        LET chosen == SubSeq(selected, 1, j)
            cur == Fit(Format(dv, chosen))
        IN \A a \in Candidates \ Elems(chosen) :
           \A b \in Candidates \ Elems(chosen) :
                (/\ a # b
                 /\ ~FitRaises(Format(dv, chosen \o <<a>>))
                 /\ ~FitRaises(Format(dv, chosen \o <<b>>))
                 /\ ~FitRaises(Format(dv, chosen \o <<a, b>>))
                 /\ Fit(Format(dv, chosen \o <<a>>)) <= cur
                 /\ Fit(Format(dv, chosen \o <<b>>)) <= cur
                 /\ Fit(Format(dv, chosen \o <<a, b>>)) > cur) =>
                    /\ a \notin Elems(selected)
                    /\ b \notin Elems(selected)

\* C17 amended: the search is greedy: while no remaining candidate on its
\* own raises the score above current_score, nothing more is selected,
\* whatever two of them score jointly, and a call that returns then returns
\* the model it has, which can score strictly below another subset of the
\* candidates.  (When a third candidate does improve on its own it is
\* accepted, and the two may be selected after it.)
C17_NoSingleGainNothingSelected ==
    [][(/\ pc = "loop"
        /\ \A c \in remaining : Fit(CandidateFormula(c)) <= current_score) =>
            /\ selected' = selected
            /\ remaining' = remaining
            /\ current_score' = current_score
            /\ pc' = "done" => model'.rsquared_adj = current_score
      ]_vars

C17_Witness ==
    /\ pc = "done"
    /\ selected = <<>>
    /\ Cardinality(remaining) = 2
    /\ \A c \in remaining : rsquared_adj[{c}] <= 0
    /\ rsquared_adj[remaining] > model.rsquared_adj

\* The candidates of remaining with the highest score when added to
\* selected.
TopCandidates ==
    {c \in remaining :
        \A d \in remaining : Fit(CandidateFormula(d)) <= Fit(CandidateFormula(c))}

\* C18: the best candidate of an iteration depends on the scores alone,
\* not on the order in which remaining is visited: it has the highest
\* score, and among those with the highest score the greatest name.
C18_BestIsGreatestNameAmongTop ==
    [][(pc = "loop" /\ iters' = iters + 1 /\ error' # "FitFailure") =>
            /\ best_candidate' \in TopCandidates
            /\ \A d \in TopCandidates :
                    d = best_candidate' \/ NameLess(d, best_candidate')
            /\ best_new_score' = Fit(CandidateFormula(best_candidate'))
      ]_vars

C18_Witness ==
    /\ iters = 1
    /\ best_candidate = "vacants"
    /\ selected = <<"vacants">>
    /\ rsquared_adj[{"income_log"}] = rsquared_adj[{"vacants"}]
    /\ "youth" \in remaining

\* C15: once the splitting cell has run, row i of 0..179 is in train_mask
\* iff i mod 4 is 0 or 1, in validate_mask iff i mod 4 = 2, in test_mask
\* iff i mod 4 = 3; the masks hold 90, 45 and 45 labels, each once, so
\* they are pairwise disjoint and cover every row once; train_mask is
\* ascending.
C15_MasksPartitionRows ==
    mask_pc = "done" =>
        /\ \A i \in 0..179 :
            /\ (i \in Elems(train_mask)) <=> (i % 4 \in {0, 1})
            /\ (i \in Elems(validate_mask)) <=> (i % 4 = 2)
            /\ (i \in Elems(test_mask)) <=> (i % 4 = 3)
        /\ Elems(train_mask) \cup Elems(validate_mask) \cup Elems(test_mask) = 0..179
        /\ Len(train_mask) = 90
        /\ Len(validate_mask) = 45
        /\ Len(test_mask) = 45
        /\ \A i \in 1..(Len(train_mask) - 1) : train_mask[i] < train_mask[i + 1]

C15_Witness ==
    /\ mask_pc = "done"
    /\ pc = "start"
    /\ Len(train_mask) = 90
    /\ Len(test_mask) = 45

====
